---- MODULE Spec2Model ----
(***************************************************************************)
(* OAuth 2.0 client-credentials token manager of fast-api-beetrack:        *)
(*   AuthTokenCacheService      (app/services/auth_token_cache_service.py) *)
(*   OAuthAuthenticationService (app/services/oauth_authentication_        *)
(*                               service.py)                               *)
(* Tasks are asyncio coroutines of one event loop.  A task runs without    *)
(* interruption between two suspension points; the suspension points are   *)
(* the wait for the contended refresh lock and the HTTP POST.  An          *)
(* uncontended asyncio.Lock is acquired without suspending, and the        *)
(* cache's own lock is never held across an await, so every *_async cache  *)
(* operation runs inside one step.                                         *)
(***************************************************************************)
EXTENDS Integers, Sequences, FiniteSets, TLC

\* ------------------------------------------------------------- bounds
NumTasks == 2
MaxTime == 1
MaxBuffer == 1
MaxExpiresIn == 2
MaxClients == 2
MaxItems == 2

Tasks == 1..NumTasks
\* expires_in values a provider (or a cache client) may send
ExpiresInValues == -1..MaxExpiresIn
\* access_token strings a provider may send
Tokens == {"", "tokA", "tokB"}
\* HTTP failure statuses (>= 400) HTTPClientService raises
StatusCodes == {400, 401, 429, 499, 500}

None == "None"
NoTime == -1

\* ------------------------------------------------------------- state
VARIABLES
  settings,       \* app.core.config.settings (fixed after start-up)
  now,            \* datetime.utcnow(), in seconds
  cache,          \* AuthTokenCacheService._token / ._expiration_time
  cache_lock,     \* AuthTokenCacheService._lock is held
  refresh_lock,   \* OAuthAuthenticationService._refresh_lock
  pc,             \* per task: where the call is suspended, or how it ended
  via,            \* per task: the entry point that was called
  attempt,        \* per task: request_token's loop variable = POSTs it made
  result,         \* per task: what the call returned or raised
  stored,         \* history: the latest effective set_token call
  issued,         \* history: access_tokens of successful provider responses
  valid_until,    \* history: earliest instant a token obtained so far lapses
  overlap,        \* history: all tasks were in a call at the same moment
  acquired,       \* history, per task: the locks its call has acquired
  noop_store,     \* history: a set_token call with expires_in <= 0 found
                  \* the cache populated
  info,           \* the latest diagnostic snapshot that was returned
  http,           \* HTTPClientService._client, the clients it created and
                  \* the requests made on them
  item_store      \* ItemService._items_db / ._next_id and the latest
                  \* answer of GET /items

vars == <<settings, now, cache, cache_lock, refresh_lock, pc, via, attempt,
          result, stored, issued, valid_until, overlap, acquired, noop_store, info, http, item_store>>

\* ------------------------------------------------- AuthTokenCacheService
EmptyCache == [token |-> None, expiration_time |-> NoTime]

Max(a, b) == IF a >= b THEN a ELSE b

\* a set_token that takes the buffer off twice
set_token_double_buffer(c, token, expires_in, t, buffer) ==
  IF expires_in <= 0
    THEN c
    ELSE [token |-> token,
          expiration_time |-> t + Max(expires_in - buffer - buffer, 0)]

\* a store that adds the buffer to the lifetime
set_token_adds_buffer(c, token, expires_in, t, buffer) ==
  IF expires_in <= 0
    THEN c
    ELSE [token |-> token,
          expiration_time |-> t + Max(expires_in + buffer, 0)]

\* a store that keeps the token for its whole lifetime
set_token_buffer_ignored(c, token, expires_in, t, buffer) ==
  IF expires_in <= 0
    THEN c
    ELSE [token |-> token, expiration_time |-> t + expires_in]

\* a guard that lets a lifetime of zero through
set_token_zero_allowed(c, token, expires_in, t, buffer) ==
  IF expires_in < 0
    THEN c
    ELSE [token |-> token,
          expiration_time |-> t + Max(expires_in - buffer, 0)]

\* a store that assigns the token before it looks at expires_in
set_token_token_before_guard(c, token, expires_in, t, buffer) ==
  IF expires_in <= 0
    THEN [c EXCEPT !.token = token]
    ELSE [token |-> token,
          expiration_time |-> t + Max(expires_in - buffer, 0)]

\* set_token(token, expires_in) at instant t with the configured buffer
set_token(c, token, expires_in, t, buffer) ==
  IF expires_in <= 0
    THEN c
    ELSE [token |-> token,
          expiration_time |-> t + Max(expires_in - buffer, 0)]

\* an expiry test that looks for a token and not at the clock
is_expired_empty_only(c, t) == c.token = None \/ c.expiration_time = NoTime

\* an expiry test that still accepts the token at the boundary instant
is_expired_after_boundary(c, t) ==
  IF c.token = None \/ c.expiration_time = NoTime
    THEN TRUE
    ELSE t > c.expiration_time

is_expired(c, t) ==
  IF c.token = None \/ c.expiration_time = NoTime
    THEN TRUE
    ELSE t >= c.expiration_time

\* a read that hands out whatever is stored
get_token_ignores_expiry(c, t) == c.token

get_token(c, t) ==
  IF c.token = None THEN None
  ELSE IF is_expired(c, t) THEN None
  ELSE c.token

\* a clear that forgets the token and keeps its expiration time
clear_token_keeps_expiry(c) == [c EXCEPT !.token = None]

clear_token(c) == EmptyCache

\* Python truthiness of an Optional[str]: None and "" are falsy
Truthy(tok) == tok # None /\ tok # ""

\* an "async with self._lock" that returns with the lock still held
cache_lock_kept(l) == TRUE

\* "async with self._lock" around get_token, set_token or clear_token: the
\* body has no await, so the lock is released in the step that took it
cache_lock_released(l) == FALSE

\* an async read that never finds the token
get_token_async_misses(c, t) == None

\* the *_async variants: the same operation inside "async with self._lock"
get_token_async(c, t) == get_token(c, t)

\* a store that skips the expires_in <= 0 guard
set_token_async_unguarded(c, token, expires_in, t, buffer) ==
  [token |-> token, expiration_time |-> t + Max(expires_in - buffer, 0)]

set_token_async(c, token, expires_in, t, buffer) ==
  set_token(c, token, expires_in, t, buffer)

clear_token_async(c) == clear_token(c)

\* ------------------------------------------------------- asyncio.Lock
\* an acquire() that looks at the queue only, not at the holder
CanAcquire_ignores_holder(l) == l.waiters = <<>>

\* acquire() returns at once when the lock is free and nobody queues
CanAcquire(l) == ~l.locked /\ l.waiters = <<>>

\* an acquire() that returns without marking the lock as held
Acquired_not_marked(l) == l

Acquired(l) == [l EXCEPT !.locked = TRUE]

\* a release() that leaves the lock marked as held
release_keeps_locked(l) == l

\* release(): unlock; the first waiter (if any) is woken and takes the lock
\* when it next runs
release(l) == [l EXCEPT !.locked = FALSE]

\* a body that releases with a plain release() call after the work, which a
\* CancelledError skips
aexit_skipped_on_cancel(l, how) == IF how = "cancel" THEN l ELSE release(l)

\* "async with self._refresh_lock": __aexit__ runs however the body ends
\* (how: "return", "raise", "cancel")
aexit(l, how) == release(l)

\* a cancellation that leaves the waiter's entry in the queue
Remove_leaves_entry(seq, x) == seq

Remove(seq, x) == SelectSeq(seq, LAMBDA y : y # x)

\* ------------------------------------------- OAuthAuthenticationService
max_retry_attempts == 3

\* a validation that forgets the token URL
Configured_without_url(s) ==
  /\ s.OAUTH_CLIENT_ID # ""
  /\ s.OAUTH_CLIENT_SECRET # ""

Configured(s) ==
  /\ s.OAUTH_CLIENT_ID # ""
  /\ s.OAUTH_CLIENT_SECRET # ""
  /\ s.OAUTH_TOKEN_URL # ""

\* What one POST can come to (HTTPClientService.post as request_token
\* sees it):
\*   ok               a body with access_token and expires_in
\*   no_access_token  a body without access_token
\*   no_expires_in    a body with access_token and without expires_in
\*   http             HTTPClientError with a status code (status >= 400)
\*   transport        HTTPClientError without status (timeout, network)
\*   unexpected       any other exception raised inside the attempt
\* the body of a provider's failure response; none: there is no body
ErrorBody(kind, error, error_description) ==
  [kind |-> kind, error |-> error, error_description |-> error_description]

NoBody == ErrorBody("none", None, None)

Outcome(kind, token, expires_in, status) ==
  [kind |-> kind, token |-> token, expires_in |-> expires_in,
   status |-> status, body |-> NoBody]

Outcomes ==
  {Outcome("ok", tok, e, 200) : tok \in Tokens, e \in ExpiresInValues}
  \cup {Outcome(k, None, 0, 200) : k \in {"no_access_token", "no_expires_in"}}
  \cup {Outcome("http", None, 0, sc) : sc \in StatusCodes}
  \cup {Outcome(k, None, 0, 0) : k \in {"transport", "unexpected"}}

\* Bodies a provider may send with an HTTP failure:
\*   object  a JSON object with error and error_description
\*   string  a JSON string whose characters are the JSON text of such an
\*           object
\*   text    text that is not JSON
ProviderErrorBodies ==
  {ErrorBody("object", "invalid_client", "bad credentials"),
   ErrorBody("string", "invalid_client", "bad credentials"),
   ErrorBody("text", None, None)}

ProviderErrorOutcomes ==
  {[Outcome("http", None, 0, sc) EXCEPT !.body = b] :
     sc \in StatusCodes, b \in ProviderErrorBodies}

\* a Python str, as far as json.loads tells strings apart: its syntax
\* ("json", "repr" for the repr of a dict, "plain", "empty") and the error
\* fields its text spells out
Str(syntax, error, error_description) ==
  [syntax |-> syntax, error |-> error, error_description |-> error_description]

\* HTTPClientService._process_response for status >= 400: the
\* response_body of the HTTPClientError.  response.json() turns an object
\* into a dict, which goes through str(); a JSON string comes out as the
\* str it encodes; anything else is response.text.
response_body(b) ==
  CASE b.kind = "object" -> Str("repr", b.error, b.error_description)
    [] b.kind = "string" -> Str("json", b.error, b.error_description)
    [] b.kind = "text" -> Str("plain", None, None)
    [] OTHER -> Str("empty", None, None)

\* request_token: json.loads(e.response_body) and the two .get calls; a
\* JSONDecodeError leaves both None, an empty body is not parsed at all
provider_error(rb) ==
  IF rb.syntax = "json"
    THEN [error_code |-> rb.error, error_description |-> rb.error_description]
    ELSE [error_code |-> None, error_description |-> None]

Step(do, token, code) ==
  [do |-> do, token |-> token, code |-> code, description |-> None]

\* a loop that gives up one attempt early
retry_or_raise_one_short(n, code) ==
  IF n + 1 >= max_retry_attempts
    THEN Step("raise", None, code)
    ELSE Step("retry", None, code)

\* a loop that answers exhaustion with the generic error
retry_or_raise_generic(n, code) ==
  IF n >= max_retry_attempts
    THEN Step("raise", None, "max_retries_exceeded")
    ELSE Step("retry", None, code)

\* when an attempt failed with a retryable error: raise if it was the last
retry_or_raise(n, code) ==
  IF n >= max_retry_attempts
    THEN Step("raise", None, code)
    ELSE Step("retry", None, code)

\* a classification that treats only 401 and 403 as final
non_retryable_status_auth_only(sc) == sc \in {401, 403}

\* 4xx other than 429 is not retried
non_retryable_status(sc) == sc # 0 /\ 400 <= sc /\ sc < 500 /\ sc # 429

\* a loop iteration that answers a failed attempt with an empty result
\* instead of an error
attempt_result_swallows(o, n) ==
  IF o.kind = "ok" THEN Step("return", o.token, "")
  ELSE Step("return", None, "")

\* a loop iteration that gives up at once on an exception it does not know
attempt_result_unexpected_fatal(o, n) ==
  CASE o.kind = "ok" -> Step("return", o.token, "")
    [] o.kind = "no_access_token" -> Step("raise", None, "invalid_response")
    [] o.kind = "no_expires_in" -> Step("raise", None, "invalid_response")
    [] o.kind = "http" ->
         LET pe == provider_error(response_body(o.body))
             code == IF pe.error_code # None THEN pe.error_code
                     ELSE "request_failed"
             r == IF non_retryable_status(o.status)
                    THEN Step("raise", None, code)
                    ELSE retry_or_raise(n, code)
         IN [r EXCEPT !.description = pe.error_description]
    [] o.kind = "transport" -> retry_or_raise(n, "request_failed")
    [] OTHER -> Step("raise", None, "unexpected_error")

\* one iteration of request_token's retry loop, attempt number n, for the
\* outcome o of its POST
attempt_result(o, n) ==
  CASE o.kind = "ok" -> Step("return", o.token, "")
    [] o.kind = "no_access_token" -> Step("raise", None, "invalid_response")
    [] o.kind = "no_expires_in" -> Step("raise", None, "invalid_response")
    [] o.kind = "http" ->
         LET pe == provider_error(response_body(o.body))
             code == IF pe.error_code # None THEN pe.error_code
                     ELSE "request_failed"
             r == IF non_retryable_status(o.status)
                    THEN Step("raise", None, code)
                    ELSE retry_or_raise(n, code)
         IN [r EXCEPT !.description = pe.error_description]
    [] o.kind = "transport" -> retry_or_raise(n, "request_failed")
    [] OTHER -> retry_or_raise(n, "unexpected_error")

\* --------------------------------------------------------- task results
NoResult ==
  [kind |-> "none", token |-> None, code |-> "", path |-> "",
   description |-> None]
Returned(token, path) ==
  [kind |-> "token", token |-> token, code |-> "", path |-> path,
   description |-> None]
\* an OAuthError with its error_code (error_description None)
Raised(code) ==
  [kind |-> "error", token |-> None, code |-> code, path |-> "",
   description |-> None]
Cancelled(where) ==
  [kind |-> "cancelled", token |-> None, code |-> "", path |-> where,
   description |-> None]

InCall(p) == p \in {"lock_wait", "post"}

NoStore == [token |-> None, expires_in |-> 0, at |-> NoTime]
Never == MaxTime + MaxExpiresIn + 1

\* the instant from which a token obtained at t can no longer be served
\* from the cache
lapse(token, expires_in, t, buffer) ==
  IF token = "" \/ expires_in <= 0 THEN t
  ELSE t + Max(expires_in - buffer, 0)

Min(a, b) == IF a <= b THEN a ELSE b

\* ------------------------------------------------- diagnostic snapshots
\* no snapshot has been returned yet; an absent time or number of seconds
\* (None in the dict) is NoTime
NoInfo ==
  [source |-> "none", has_token |-> FALSE, is_expired |-> TRUE,
   expiration_time |-> NoTime, current_time |-> NoTime,
   seconds_until_expiration |-> NoTime, oauth_configured |-> FALSE,
   token_url |-> ""]

\* a snapshot that computes the remaining seconds whenever an expiration
\* time is set
get_expiration_info_always_counts(c, t1, t2, t3) ==
  [source |-> "cache",
   has_token |-> c.token # None,
   is_expired |-> is_expired(c, t2),
   expiration_time |-> c.expiration_time,
   current_time |-> t1,
   seconds_until_expiration |->
     IF c.expiration_time # NoTime THEN c.expiration_time - t1 ELSE NoTime,
   oauth_configured |-> FALSE,
   token_url |-> ""]

\* AuthTokenCacheService.get_expiration_info.  The clock is read three
\* times: t1 for current_time, t2 inside the is_expired() of the dict and
\* t3 inside the is_expired() that decides on seconds_until_expiration.
get_expiration_info(c, t1, t2, t3) ==
  [source |-> "cache",
   has_token |-> c.token # None,
   is_expired |-> is_expired(c, t2),
   expiration_time |-> c.expiration_time,
   current_time |-> t1,
   seconds_until_expiration |->
     IF c.expiration_time # NoTime /\ ~is_expired(c, t3)
       THEN c.expiration_time - t1
       ELSE NoTime,
   oauth_configured |-> FALSE,
   token_url |-> ""]

\* a configuration flag that is satisfied with any one setting
get_token_info_any_setting(s, c, t1, t2, t3) ==
  [get_expiration_info(c, t1, t2, t3) EXCEPT
     !.source = "manager",
     !.oauth_configured = (s.OAUTH_CLIENT_ID # ""
                           \/ s.OAUTH_CLIENT_SECRET # ""
                           \/ s.OAUTH_TOKEN_URL # ""),
     !.token_url = s.OAUTH_TOKEN_URL]

\* OAuthAuthenticationService.get_token_info
get_token_info(s, c, t1, t2, t3) ==
  [get_expiration_info(c, t1, t2, t3) EXCEPT
     !.source = "manager",
     !.oauth_configured = (s.OAUTH_CLIENT_ID # ""
                           /\ s.OAUTH_CLIENT_SECRET # ""
                           /\ s.OAUTH_TOKEN_URL # ""),
     !.token_url = s.OAUTH_TOKEN_URL]

\* ---------------------------------------------------- HTTPClientService
\* ------------------------------------------------------ HTTPClientService

\* self._client is None; the clients the service creates are numbered 1, 2..
NoClient == 0

\* HTTPClientError.status_code is None
NoStatus == 0

Methods == {"GET", "POST", "PUT", "DELETE"}

ResponseStatusCodes == {200, 400}

\* what comes back from client.<method>(): a response with a status and a
\* body (a JSON object or text that is not JSON), or an httpx exception
Response(status, body) == [kind |-> "response", status |-> status, body |-> body]

Failure(kind) == [kind |-> kind, status |-> NoStatus, body |-> NoBody]

Replies ==
  {Response(sc, b) : sc \in ResponseStatusCodes,
                     b \in {ErrorBody("object", "invalid_client", "bad credentials"),
                            ErrorBody("text", None, None)}}
  \cup {Failure(k) : k \in {"TimeoutException", "NetworkError", "HTTPError"}}

\* how a call on the service ends
HttpResult(kind, status_code, body) ==
  [kind |-> kind, status_code |-> status_code, body |-> body]

NoHttpResult == HttpResult("none", NoStatus, NoBody)

\* a task's call on the service: state is "idle", "sent" (awaiting
\* client.<method>()), "closing" (awaiting aclose()) or "done"; on is the
\* client whose reply the call is waiting for, requests the number of
\* times it invoked client.<method>()
HttpCallRecord(state, on, requests, res) ==
  [state |-> state, on |-> on, requests |-> requests, result |-> res]

NoHttpCall == HttpCallRecord("idle", NoClient, 0, NoHttpResult)

\* HTTPClientService._get_client; created counts the clients made so far
\* and aclosed the aclose() calls begun on the one made last
_get_client(h) ==
  IF h.client = NoClient
    THEN [h EXCEPT !.created = @ + 1, !.client = h.created + 1,
                   !.aclosed = 0]
    ELSE h

\* HTTPClientService._process_response; the headers of the returned dict
\* are left out
_process_response(status, body) ==
  IF status >= 400
    THEN HttpResult("HTTPClientError", status, response_body(body))
    ELSE HttpResult("returned", status, body)

\* the except clauses of get/post/put/delete
request_failed(reply) == HttpResult("HTTPClientError", NoStatus, NoBody)

\* ---------------------------------------------------------- ItemService
\* an Optional[...] argument: <<>> is None, <<v>> the value v
Optional(S) == {<<>>} \cup {<<v>> : v \in S}

\* item names and search terms are strings over the characters A, a, b
Names == {<<"A", "b">>, <<"b">>}

SearchTerms == {<<"a">>, <<"B">>}

Prices == {1, 3}

PriceLimits == {2}

\* ItemCreate, without the description
ItemData == [name : Names, price : Prices, is_available : BOOLEAN]

\* ItemUpdate: the fields that are set
ItemUpdates ==
  [name : Optional(Names), price : Optional(Prices),
   is_available : Optional(BOOLEAN)]

\* the query parameters of GET /items
Queries ==
  [available_only : Optional(BOOLEAN), min_price : Optional(PriceLimits),
   max_price : Optional(PriceLimits), search : Optional(SearchTerms)]

NoQuery ==
  [available_only |-> <<>>, min_price |-> <<>>, max_price |-> <<>>,
   search |-> <<>>]

\* what update_item or delete_item returned: <<>> is None
Reply(op, value) == [op |-> op, value |-> value]

NoReply == Reply("none", <<>>)

\* the response of the latest request: for a GET /items the query and the
\* ids of the items returned, for an update or a delete what the service
\* returned
NoListing ==
  [asked |-> FALSE, query |-> NoQuery, returned |-> {}, reply |-> NoReply]

\* ItemService.__init__; assigned is the sequence of ids create_item has
\* handed out since the store was last empty by construction or clearing
EmptyItemStore ==
  [items_db |-> <<>>, next_id |-> 1, assigned |-> <<>>, listing |-> NoListing]

\* str.lower()
lower(str) ==
  [i \in 1..Len(str) |-> IF str[i] = "A" THEN "a"
                         ELSE IF str[i] = "B" THEN "b" ELSE str[i]]

\* sub in str
Contains(sub, str) ==
  \E i \in 1..(Len(str) - Len(sub) + 1) :
    SubSeq(str, i, i + Len(sub) - 1) = sub

\* a create_item that numbers the new item by the size of the store
create_item_id_from_count(st, item_data) ==
  LET id == Cardinality(DOMAIN st.items_db) + 1
  IN  [st EXCEPT
         !.items_db = [i \in DOMAIN st.items_db \cup {id} |->
                         IF i = id THEN item_data ELSE st.items_db[i]],
         !.next_id = @ + 1,
         !.assigned = Append(@, id)]

\* ItemService.create_item
create_item(st, item_data) ==
  LET id == st.next_id
  IN  [st EXCEPT
         !.items_db = [i \in DOMAIN st.items_db \cup {id} |->
                         IF i = id THEN item_data ELSE st.items_db[i]],
         !.next_id = @ + 1,
         !.assigned = Append(@, id)]

\* an update that creates the item when it is not there
update_item_upsert(st, item_id, item_data) ==
  [st EXCEPT !.items_db =
     [i \in DOMAIN st.items_db \cup {item_id} |->
        IF i = item_id
          THEN [name |-> IF item_data.name = <<>> THEN <<"b">>
                         ELSE item_data.name[1],
                price |-> IF item_data.price = <<>> THEN 1
                          ELSE item_data.price[1],
                is_available |-> IF item_data.is_available = <<>> THEN TRUE
                                 ELSE item_data.is_available[1]]
          ELSE st.items_db[i]]]

\* ItemService.update_item: model_copy(update=model_dump(exclude_unset=True))
update_item(st, item_id, item_data) ==
  IF item_id \notin DOMAIN st.items_db
    THEN st
    ELSE [st EXCEPT !.items_db[item_id] =
            [name |-> IF item_data.name = <<>> THEN @.name
                      ELSE item_data.name[1],
             price |-> IF item_data.price = <<>> THEN @.price
                       ELSE item_data.price[1],
             is_available |-> IF item_data.is_available = <<>>
                                THEN @.is_available
                                ELSE item_data.is_available[1]]]

\* ItemService.delete_item
delete_item(st, item_id) ==
  IF item_id \notin DOMAIN st.items_db
    THEN st
    ELSE [st EXCEPT !.items_db =
            [i \in DOMAIN st.items_db \ {item_id} |-> st.items_db[i]]]

\* the value update_item returns: None, or the updated item
update_item_returns(st, item_id, item_data) ==
  IF item_id \notin DOMAIN st.items_db
    THEN <<>>
    ELSE <<update_item(st, item_id, item_data).items_db[item_id]>>

\* the value delete_item returns
delete_item_returns(st, item_id) == <<item_id \in DOMAIN st.items_db>>

\* ItemService.clear_all_items
clear_all_items(st) ==
  [st EXCEPT !.items_db = <<>>, !.next_id = 1, !.assigned = <<>>]

\* ItemService.get_all_items, as the ids of the items
get_all_items(st) == DOMAIN st.items_db

\* ItemService.get_available_items
get_available_items(st) ==
  {i \in DOMAIN st.items_db : st.items_db[i].is_available}

\* ItemService.get_items_by_price_range
get_items_by_price_range(st, min_price, max_price) ==
  {i \in DOMAIN st.items_db :
     min_price <= st.items_db[i].price /\ st.items_db[i].price <= max_price}

\* ItemService.search_items_by_name
search_items_by_name(st, search_term) ==
  {i \in DOMAIN st.items_db :
     Contains(lower(search_term), lower(st.items_db[i].name))}

\* the GET /items endpoint
get_items(st, q) ==
  LET all == get_all_items(st)
      by_availability ==
        IF q.available_only # <<>> /\ q.available_only[1]
          THEN get_available_items(st)
          ELSE all
      by_price ==
        IF q.min_price # <<>> /\ q.max_price # <<>>
          THEN get_items_by_price_range(st, q.min_price[1], q.max_price[1])
        ELSE IF q.min_price # <<>>
          THEN {i \in by_availability :
                  st.items_db[i].price >= q.min_price[1]}
        ELSE IF q.max_price # <<>>
          THEN {i \in by_availability :
                  st.items_db[i].price <= q.max_price[1]}
        ELSE by_availability
  IN  IF q.search # <<>>
        THEN search_items_by_name(st, q.search[1])
        ELSE by_price

\* ------------------------------------------------------------- Init
Init ==
  /\ settings \in [OAUTH_CLIENT_ID : {"", "id"},
                   OAUTH_CLIENT_SECRET : {"", "secret"},
                   OAUTH_TOKEN_URL : {"", "url"},
                   TOKEN_EXPIRATION_BUFFER_SECONDS : 0..MaxBuffer]
  /\ now = 0
  /\ cache = EmptyCache
  /\ cache_lock = FALSE
  /\ refresh_lock = [locked |-> FALSE, waiters |-> <<>>]
  /\ pc = [t \in Tasks |-> "idle"]
  /\ via = [t \in Tasks |-> ""]
  /\ attempt = [t \in Tasks |-> 0]
  /\ result = [t \in Tasks |-> NoResult]
  /\ stored = NoStore
  /\ issued = {}
  /\ valid_until = Never
  /\ overlap = FALSE
  /\ acquired = [t \in Tasks |-> {}]
  /\ noop_store = FALSE
  /\ info = NoInfo
  /\ http = [client |-> NoClient, created |-> 0,
             aclosed |-> 0,
             call |-> [t \in Tasks |-> NoHttpCall]]
  /\ item_store = EmptyItemStore

Buffer == settings.TOKEN_EXPIRATION_BUFFER_SECONDS

\* ------------------------------------------------------ action pieces
TrackOverlap == overlap' = (overlap \/ \A t \in Tasks : InCall(pc'[t]))

\* the call of task t ends: newpc is "returned", "raised" or "cancelled"
Ends(t, newpc, res, l) ==
  /\ pc' = [pc EXCEPT ![t] = newpc]
  /\ result' = [result EXCEPT ![t] = res]
  /\ refresh_lock' = l

\* leaving the body of "async with self._refresh_lock", when inside one
Leave(held, l, how) == IF held THEN aexit(l, how) ELSE l

\* request_token up to its first suspension: the configuration checks,
\* then the first POST is sent.  l is the refresh lock as it is now and
\* held says whether this task holds it.
StartRequestToken(t, l, held) ==
  IF ~Configured(settings)
    THEN /\ Ends(t, "raised", Raised("configuration_error"),
                 Leave(held, l, "raise"))
         /\ UNCHANGED attempt
    ELSE /\ pc' = [pc EXCEPT ![t] = "post"]
         /\ attempt' = [attempt EXCEPT ![t] = 1]
         /\ refresh_lock' = l
         /\ UNCHANGED result

\* a locked section without the second check of the cache
LockedSection_no_recheck(t, l) == StartRequestToken(t, l, TRUE)

\* get_valid_token_async from the acquisition of the refresh lock on: the
\* second check of the cache, then request_token
LockedSection(t, l) ==
  LET token == get_token_async(cache, now) IN
  IF Truthy(token)
    THEN /\ Ends(t, "returned", Returned(token, "recheck"),
                 aexit(l, "return"))
         /\ UNCHANGED attempt
    ELSE StartRequestToken(t, l, TRUE)

\* ------------------------------------------------------------ actions
\* a get_valid_token_async that takes the refresh lock before it reads the
\* cache
GetValidTokenAsync_lock_first(t) ==
  /\ pc[t] = "idle"
  /\ ~cache_lock
  /\ via' = [via EXCEPT ![t] = "get_valid_token_async"]
  /\ IF CanAcquire(refresh_lock)
       THEN LockedSection(t, Acquired(refresh_lock))
       ELSE /\ pc' = [pc EXCEPT ![t] = "lock_wait"]
            /\ refresh_lock' =
                 [refresh_lock EXCEPT !.waiters = Append(@, t)]
            /\ UNCHANGED <<attempt, result>>
  /\ acquired' =
       [acquired EXCEPT ![t] =
          IF CanAcquire(refresh_lock) THEN {"_lock", "_refresh_lock"}
          ELSE {}]
  /\ cache_lock' = cache_lock_released(cache_lock)
  /\ TrackOverlap
  /\ UNCHANGED <<settings, now, cache, stored,
                 issued, valid_until, noop_store, info, http, item_store>>

\* A task calls get_valid_token_async and runs to its first suspension.
GetValidTokenAsync(t) ==
  /\ pc[t] = "idle"
  /\ ~cache_lock
  /\ via' = [via EXCEPT ![t] = "get_valid_token_async"]
  /\ LET token == get_token_async(cache, now) IN
     IF Truthy(token)
       THEN /\ Ends(t, "returned", Returned(token, "fast"), refresh_lock)
            /\ UNCHANGED attempt
       ELSE IF CanAcquire(refresh_lock)
         THEN LockedSection(t, Acquired(refresh_lock))
         ELSE /\ pc' = [pc EXCEPT ![t] = "lock_wait"]
              /\ refresh_lock' =
                   [refresh_lock EXCEPT !.waiters = Append(@, t)]
              /\ UNCHANGED <<attempt, result>>
  /\ acquired' =
       [acquired EXCEPT ![t] =
          IF ~Truthy(get_token_async(cache, now)) /\ CanAcquire(refresh_lock)
            THEN {"_lock", "_refresh_lock"}
            ELSE {"_lock"}]
  /\ cache_lock' = cache_lock_released(cache_lock)
  /\ TrackOverlap
  /\ UNCHANGED <<settings, now, cache, stored,
                 issued, valid_until, noop_store, info, http, item_store>>

\* The first waiter, woken by a release, takes the refresh lock and goes on.
LockAcquired(t) ==
  /\ pc[t] = "lock_wait"
  /\ ~refresh_lock.locked
  /\ refresh_lock.waiters # <<>>
  /\ Head(refresh_lock.waiters) = t
  /\ ~cache_lock
  /\ LockedSection(t, [locked |-> TRUE,
                       waiters |-> Tail(refresh_lock.waiters)])
  /\ acquired' = [acquired EXCEPT ![t] = @ \cup {"_refresh_lock", "_lock"}]
  /\ cache_lock' = cache_lock_released(cache_lock)
  /\ TrackOverlap
  /\ UNCHANGED <<settings, now, cache, via, stored, issued,
                 valid_until, noop_store, info, http, item_store>>

\* A task calls request_token itself (no refresh lock is taken).
RequestToken(t) ==
  /\ pc[t] = "idle"
  /\ via' = [via EXCEPT ![t] = "request_token"]
  /\ StartRequestToken(t, refresh_lock, FALSE)
  /\ TrackOverlap
  /\ UNCHANGED <<settings, now, cache, cache_lock, stored,
                 issued, valid_until, acquired, noop_store, info, http, item_store>>

\* a request_token that empties the cache when it gives up
PostCompletes_clears_on_failure(t, o) ==
  /\ pc[t] = "post"
  /\ ~cache_lock
  /\ LET r == attempt_result(o, attempt[t])
         held == via[t] = "get_valid_token_async"
     IN
     /\ CASE r.do = "return" ->
               /\ cache' = set_token_async(cache, o.token, o.expires_in,
                                           now, Buffer)
               /\ stored' = IF o.expires_in <= 0 THEN stored
                            ELSE [token |-> o.token,
                                  expires_in |-> o.expires_in, at |-> now]
               /\ Ends(t, "returned", Returned(r.token, "refresh"),
                       Leave(held, refresh_lock, "return"))
               /\ UNCHANGED attempt
          [] r.do = "raise" ->
               /\ Ends(t, "raised",
                       [Raised(r.code) EXCEPT !.description = r.description],
                       Leave(held, refresh_lock, "raise"))
               /\ cache' = clear_token(cache)
               /\ UNCHANGED <<attempt, stored>>
          [] OTHER ->
               /\ attempt' = [attempt EXCEPT ![t] = @ + 1]
               /\ UNCHANGED <<pc, result, refresh_lock, cache, stored>>
     /\ issued' = IF o.kind = "ok" THEN issued \cup {o.token} ELSE issued
     /\ valid_until' =
          IF o.kind = "ok"
            THEN Min(valid_until, lapse(o.token, o.expires_in, now, Buffer))
            ELSE valid_until
     /\ acquired' = IF r.do = "return"
                      THEN [acquired EXCEPT ![t] = @ \cup {"_lock"}]
                      ELSE acquired
     /\ cache_lock' = IF r.do = "return"
                        THEN cache_lock_released(cache_lock)
                        ELSE cache_lock
  /\ TrackOverlap
  /\ UNCHANGED <<settings, now, via, noop_store, info, http, item_store>>

\* The POST of task t comes to outcome o; the task runs on to the next
\* POST, or to the end of request_token and of its caller.
PostCompletes(t, o) ==
  /\ pc[t] = "post"
  /\ ~cache_lock
  /\ LET r == attempt_result(o, attempt[t])
         held == via[t] = "get_valid_token_async"
     IN
     /\ CASE r.do = "return" ->
               /\ cache' = set_token_async(cache, o.token, o.expires_in,
                                           now, Buffer)
               /\ stored' = IF o.expires_in <= 0 THEN stored
                            ELSE [token |-> o.token,
                                  expires_in |-> o.expires_in, at |-> now]
               /\ Ends(t, "returned", Returned(r.token, "refresh"),
                       Leave(held, refresh_lock, "return"))
               /\ UNCHANGED attempt
          [] r.do = "raise" ->
               /\ Ends(t, "raised",
                       [Raised(r.code) EXCEPT !.description = r.description],
                       Leave(held, refresh_lock, "raise"))
               /\ UNCHANGED <<attempt, cache, stored>>
          [] OTHER ->
               /\ attempt' = [attempt EXCEPT ![t] = @ + 1]
               /\ UNCHANGED <<pc, result, refresh_lock, cache, stored>>
     /\ issued' = IF o.kind = "ok" THEN issued \cup {o.token} ELSE issued
     /\ valid_until' =
          IF o.kind = "ok"
            THEN Min(valid_until, lapse(o.token, o.expires_in, now, Buffer))
            ELSE valid_until
     /\ acquired' = IF r.do = "return"
                      THEN [acquired EXCEPT ![t] = @ \cup {"_lock"}]
                      ELSE acquired
     /\ cache_lock' = IF r.do = "return"
                        THEN cache_lock_released(cache_lock)
                        ELSE cache_lock
  /\ TrackOverlap
  /\ UNCHANGED <<settings, now, via, noop_store, info, http, item_store>>

\* The task is cancelled at its suspension point (CancelledError is raised
\* at the await and passes every "except Exception").
Cancel(t) ==
  /\ InCall(pc[t])
  /\ IF pc[t] = "lock_wait"
       THEN Ends(t, "cancelled", Cancelled("lock_wait"),
                 [refresh_lock EXCEPT !.waiters = Remove(@, t)])
       ELSE Ends(t, "cancelled", Cancelled("post"),
                 Leave(via[t] = "get_valid_token_async", refresh_lock,
                       "cancel"))
  /\ TrackOverlap
  /\ UNCHANGED <<settings, now, cache, cache_lock, via, attempt,
                 stored, issued,
                 valid_until, acquired, noop_store, info, http, item_store>>

\* a synchronous read that goes to the provider when the cache has nothing
GetValidToken_auto_refresh(t) ==
  /\ pc[t] = "idle"
  /\ via' = [via EXCEPT ![t] = "get_valid_token"]
  /\ IF get_token(cache, now) # None
       THEN /\ Ends(t, "returned", Returned(get_token(cache, now), "sync"),
                    refresh_lock)
            /\ UNCHANGED attempt
       ELSE StartRequestToken(t, refresh_lock, FALSE)
  /\ TrackOverlap
  /\ UNCHANGED <<settings, now, cache, cache_lock, stored, issued,
                 valid_until, acquired, noop_store, info, http, item_store>>

\* A task calls get_valid_token (synchronous, no refresh): the cache's
\* get_token and nothing else.
GetValidToken(t) ==
  /\ pc[t] = "idle"
  /\ via' = [via EXCEPT ![t] = "get_valid_token"]
  /\ Ends(t, "returned", Returned(get_token(cache, now), "sync"),
          refresh_lock)
  /\ TrackOverlap
  /\ UNCHANGED <<settings, now, cache, cache_lock, attempt, stored, issued,
                 valid_until, acquired, noop_store, info, http, item_store>>

\* a clear_token that goes through the refresh lock
CallClearToken_under_refresh_lock(t) ==
  /\ pc[t] = "idle"
  /\ CanAcquire(refresh_lock)
  /\ via' = [via EXCEPT ![t] = "clear_token"]
  /\ cache' = clear_token(cache)
  /\ stored' = NoStore
  /\ Ends(t, "returned", Returned(None, "clear"), refresh_lock)
  /\ TrackOverlap
  /\ UNCHANGED <<settings, now, cache_lock, attempt, issued, valid_until,
                 acquired, noop_store, info, http, item_store>>

\* A task calls clear_token; the result records whether the refresh lock
\* was held at that moment.
CallClearToken(t) ==
  /\ pc[t] = "idle"
  /\ via' = [via EXCEPT ![t] = "clear_token"]
  /\ cache' = clear_token(cache)
  /\ stored' = NoStore
  /\ Ends(t, "returned",
          Returned(None, IF refresh_lock.locked THEN "clear_during_refresh"
                         ELSE "clear"),
          refresh_lock)
  /\ TrackOverlap
  /\ UNCHANGED <<settings, now, cache_lock, attempt, issued, valid_until,
                 acquired, noop_store, info, http, item_store>>

\* OAuthAuthenticationService.clear_token
ClearToken ==
  /\ cache' = clear_token(cache)
  /\ stored' = NoStore
  /\ UNCHANGED <<settings, now, cache_lock, refresh_lock, pc, via, attempt,
                 result, issued, valid_until,
                 overlap, acquired, noop_store, info, http, item_store>>

\* OAuthAuthenticationService.clear_token_async
ClearTokenAsync ==
  /\ ~cache_lock
  /\ cache' = clear_token_async(cache)
  /\ cache_lock' = cache_lock_released(cache_lock)
  /\ stored' = NoStore
  /\ UNCHANGED <<settings, now, refresh_lock, pc, via, attempt,
                 result, issued, valid_until,
                 overlap, acquired, noop_store, info, http, item_store>>

\* AuthTokenCacheService.set_token called by a client of the cache
SetToken(token, expires_in) ==
  /\ cache' = set_token(cache, token, expires_in, now, Buffer)
  /\ stored' = IF expires_in <= 0 THEN stored
               ELSE [token |-> token, expires_in |-> expires_in, at |-> now]
  /\ noop_store' = (noop_store \/ (expires_in <= 0 /\ cache.token # None))
  /\ UNCHANGED <<settings, now, cache_lock, refresh_lock, pc, via, attempt,
                 result, issued,
                 valid_until, overlap, acquired, info, http, item_store>>

\* HTTPClientService.get/post/put/delete up to the await of
\* client.<method>(); the four methods differ in the arguments they pass
\* on.  A client on which aclose() has begun refuses the
\* request with a RuntimeError, which none of the except clauses catches.
HttpCall(t, method) ==
  /\ http.call[t].state \in {"idle", "done"}
  /\ http.client = NoClient => http.created < MaxClients
  /\ LET h == _get_client(http)
     IN  http' =
           IF h.aclosed > 0
             THEN [h EXCEPT !.call[t] =
                     HttpCallRecord("done", NoClient, 1,
                                    HttpResult("RuntimeError", NoStatus, NoBody))]
             ELSE [h EXCEPT !.call[t] =
                     HttpCallRecord("sent", h.client, 1, NoHttpResult)]
  /\ UNCHANGED <<settings, now, cache, cache_lock, refresh_lock, pc, via,
                 attempt, result, stored, issued, valid_until, overlap,
                 acquired, noop_store, info, item_store>>

\* a call that sends the request again after an httpx exception
HttpResponds_retries(t, reply) ==
  /\ http.call[t].state = "sent"
  /\ reply \in Replies
  /\ http' =
       IF reply.kind # "response" /\ http.call[t].requests < 2
         THEN [http EXCEPT !.call[t].requests = @ + 1]
         ELSE [http EXCEPT !.call[t].state = "done",
                           !.call[t].on = NoClient,
                           !.call[t].result =
                             IF reply.kind = "response"
                               THEN _process_response(reply.status, reply.body)
                               ELSE request_failed(reply)]
  /\ UNCHANGED <<settings, now, cache, cache_lock, refresh_lock, pc, via,
                 attempt, result, stored, issued, valid_until, overlap,
                 acquired, noop_store, info, item_store>>

\* client.<method>() comes back and the call ends: _process_response for a
\* response, an HTTPClientError without status for an httpx exception
HttpResponds(t, reply) ==
  /\ http.call[t].state = "sent"
  /\ reply \in Replies
  /\ http' = [http EXCEPT !.call[t].state = "done",
                          !.call[t].on = NoClient,
                          !.call[t].result =
                            IF reply.kind = "response"
                              THEN _process_response(reply.status, reply.body)
                              ELSE request_failed(reply)]
  /\ UNCHANGED <<settings, now, cache, cache_lock, refresh_lock, pc, via,
                 attempt, result, stored, issued, valid_until, overlap,
                 acquired, noop_store, info, item_store>>

\* a close() that calls aclose() on whatever self._client is
Close_without_check(t) ==
  /\ http.call[t].state \in {"idle", "done"}
  /\ http' =
       IF http.client # NoClient
         THEN [http EXCEPT !.aclosed = @ + 1,
                           !.call[t] = HttpCallRecord("closing", NoClient, 0,
                                                      NoHttpResult)]
         ELSE [http EXCEPT !.call[t] =
                 HttpCallRecord("done", NoClient, 0,
                                HttpResult("AttributeError", NoStatus, NoBody))]
  /\ UNCHANGED <<settings, now, cache, cache_lock, refresh_lock, pc, via,
                 attempt, result, stored, issued, valid_until, overlap,
                 acquired, noop_store, info, item_store>>

\* HTTPClientService.close up to the await of aclose(); with no client the
\* call returns at once
Close(t) ==
  /\ http.call[t].state \in {"idle", "done"}
  /\ http' =
       IF http.client # NoClient
         THEN [http EXCEPT !.aclosed = @ + 1,
                           !.call[t] = HttpCallRecord("closing", NoClient, 0,
                                                      NoHttpResult)]
         ELSE [http EXCEPT !.call[t] =
                 HttpCallRecord("done", NoClient, 0,
                                HttpResult("nothing_to_close", NoStatus, NoBody))]
  /\ UNCHANGED <<settings, now, cache, cache_lock, refresh_lock, pc, via,
                 attempt, result, stored, issued, valid_until, overlap,
                 acquired, noop_store, info, item_store>>

\* aclose() comes back: self._client = None
CloseDone(t) ==
  /\ http.call[t].state = "closing"
  /\ http' = [http EXCEPT !.client = NoClient,
                          !.call[t].state = "done",
                          !.call[t].on = NoClient,
                          !.call[t].result =
                            HttpResult("closed", NoStatus, NoBody)]
  /\ UNCHANGED <<settings, now, cache, cache_lock, refresh_lock, pc, via,
                 attempt, result, stored, issued, valid_until, overlap,
                 acquired, noop_store, info, item_store>>

\* POST /items: ItemService.create_item
CreateItem(item_data) ==
  /\ item_store.next_id <= MaxItems
  /\ item_store' = [create_item(item_store, item_data) EXCEPT
                      !.listing = NoListing]
  /\ UNCHANGED <<settings, now, cache, cache_lock, refresh_lock, pc, via,
                 attempt, result, stored, issued, valid_until, overlap,
                 acquired, noop_store, info, http>>

\* PUT /items/{item_id}: ItemService.update_item
UpdateItem(item_id, item_data) ==
  /\ item_store' =
       [update_item(item_store, item_id, item_data) EXCEPT
          !.listing =
            [NoListing EXCEPT
               !.reply = Reply("update",
                               update_item_returns(item_store, item_id,
                                                   item_data))]]
  /\ UNCHANGED <<settings, now, cache, cache_lock, refresh_lock, pc, via,
                 attempt, result, stored, issued, valid_until, overlap,
                 acquired, noop_store, info, http>>

\* DELETE /items/{item_id}: ItemService.delete_item
DeleteItem(item_id) ==
  /\ item_store' =
       [delete_item(item_store, item_id) EXCEPT
          !.listing =
            [NoListing EXCEPT
               !.reply = Reply("delete",
                               delete_item_returns(item_store, item_id))]]
  /\ UNCHANGED <<settings, now, cache, cache_lock, refresh_lock, pc, via,
                 attempt, result, stored, issued, valid_until, overlap,
                 acquired, noop_store, info, http>>

\* ItemService.clear_all_items
ClearAllItems ==
  /\ item_store' = [clear_all_items(item_store) EXCEPT
                      !.listing = NoListing]
  /\ UNCHANGED <<settings, now, cache, cache_lock, refresh_lock, pc, via,
                 attempt, result, stored, issued, valid_until, overlap,
                 acquired, noop_store, info, http>>

\* GET /items
GetItems(q) ==
  /\ item_store' = [item_store EXCEPT
                      !.listing = [asked |-> TRUE, query |-> q,
                                   returned |-> get_items(item_store, q),
                                   reply |-> NoReply]]
  /\ UNCHANGED <<settings, now, cache, cache_lock, refresh_lock, pc, via,
                 attempt, result, stored, issued, valid_until, overlap,
                 acquired, noop_store, info, http>>

\* the instants at which a call that starts now may read the clock
ClockReadings ==
  {r \in (now..MaxTime) \X (now..MaxTime) \X (now..MaxTime) :
     r[1] <= r[2] /\ r[2] <= r[3]}

\* AuthTokenCacheService.get_expiration_info called by a client of the
\* cache, reading the clock at r[1], r[2] and r[3]
GetExpirationInfo(r) ==
  /\ r \in ClockReadings
  /\ info' = get_expiration_info(cache, r[1], r[2], r[3])
  /\ now' = r[3]
  /\ UNCHANGED <<settings, cache, cache_lock, refresh_lock, pc, via, attempt,
                 result, stored, issued, valid_until, overlap, acquired,
                 noop_store, http, item_store>>

\* OAuthAuthenticationService.get_token_info
GetTokenInfo(r) ==
  /\ r \in ClockReadings
  /\ info' = get_token_info(settings, cache, r[1], r[2], r[3])
  /\ now' = r[3]
  /\ UNCHANGED <<settings, cache, cache_lock, refresh_lock, pc, via, attempt,
                 result, stored, issued, valid_until, overlap, acquired,
                 noop_store, http, item_store>>

\* time passes
Tick ==
  /\ now < MaxTime
  /\ now' = now + 1
  /\ UNCHANGED <<settings, cache, cache_lock, refresh_lock, pc, via, attempt,
                 result, stored, issued,
                 valid_until, overlap, acquired, noop_store, info, http, item_store>>

\* ----------------------------------------------------- specifications
\* callers of get_valid_token_async, clear_token and the clock
Next ==
  \/ \E t \in Tasks : GetValidTokenAsync(t)
  \/ \E t \in Tasks : LockAcquired(t)
  \/ \E t \in Tasks, o \in Outcomes : PostCompletes(t, o)
  \/ \E t \in Tasks : Cancel(t)
  \/ ClearToken
  \/ ClearTokenAsync
  \/ Tick

Spec == Init /\ [][Next]_vars

\* callers of get_valid_token_async alone: nobody clears the cache
NextCallers ==
  \/ \E t \in Tasks : GetValidTokenAsync(t)
  \/ \E t \in Tasks : LockAcquired(t)
  \/ \E t \in Tasks, o \in Outcomes : PostCompletes(t, o)
  \/ \E t \in Tasks : Cancel(t)
  \/ Tick

SpecCallers == Init /\ [][NextCallers]_vars

\* request_token called directly
NextRT ==
  \/ \E t \in Tasks : RequestToken(t)
  \/ \E t \in Tasks, o \in Outcomes : PostCompletes(t, o)
  \/ \E t \in Tasks : Cancel(t)
  \/ ClearToken
  \/ ClearTokenAsync
  \/ Tick

SpecRT == Init /\ [][NextRT]_vars

\* the cache on its own
NextCache ==
  \/ \E token \in Tokens, expires_in \in ExpiresInValues :
       SetToken(token, expires_in)
  \/ ClearToken
  \/ ClearTokenAsync
  \/ Tick

SpecCache == Init /\ [][NextCache]_vars

\* request_token, set_token, clear_token and clear_token_async interleaved
\* at one instant
NextStores ==
  \/ \E t \in Tasks : RequestToken(t)
  \/ \E t \in Tasks, o \in Outcomes : PostCompletes(t, o)
  \/ \E token \in Tokens, expires_in \in ExpiresInValues :
       SetToken(token, expires_in)
  \/ ClearToken
  \/ ClearTokenAsync

SpecStores == Init /\ [][NextStores]_vars

\* tasks calling the public operations of the service (get_valid_token,
\* get_valid_token_async, clear_token) while a client of the cache stores a
\* long-lived token
NextService ==
  \/ \E t \in Tasks : GetValidTokenAsync(t)
  \/ \E t \in Tasks : LockAcquired(t)
  \/ \E t \in Tasks, o \in Outcomes : PostCompletes(t, o)
  \/ \E t \in Tasks : GetValidToken(t)
  \/ \E t \in Tasks : CallClearToken(t)
  \/ SetToken("tokB", MaxExpiresIn)
  \/ Tick

SpecService == Init /\ [][NextService]_vars

\* request_token against a provider that fails with an error body, through
\* HTTPClientService
NextHTTP ==
  \/ \E t \in Tasks : RequestToken(t)
  \/ \E t \in Tasks, o \in ProviderErrorOutcomes : PostCompletes(t, o)
  \/ Tick

SpecHTTP == Init /\ [][NextHTTP]_vars

\* callers of get_valid_token_async and cancellations, with the scheduling
\* the event loop and the HTTP client give: a task that can take the
\* refresh lock is run, and a POST comes to an end (the client has a
\* timeout).  The provider answers with a token, a transport failure or a
\* 400.
LiveOutcomes ==
  {Outcome("ok", "tokA", MaxExpiresIn, 200),
   Outcome("transport", None, 0, 0),
   Outcome("http", None, 0, 400)}

NextLive ==
  \/ \E t \in Tasks : GetValidTokenAsync(t)
  \/ \E t \in Tasks : LockAcquired(t)
  \/ \E t \in Tasks, o \in LiveOutcomes : PostCompletes(t, o)
  \/ \E t \in Tasks : Cancel(t)

SpecLive ==
  /\ Init
  /\ [][NextLive]_vars
  /\ \A t \in Tasks :
       /\ WF_vars(LockAcquired(t))
       /\ WF_vars(\E o \in LiveOutcomes : PostCompletes(t, o))

\* tasks calling the operations of the service that can change the cache:
\* get_valid_token_async, request_token and clear_token
NextManager ==
  \/ \E t \in Tasks : GetValidTokenAsync(t)
  \/ \E t \in Tasks : LockAcquired(t)
  \/ \E t \in Tasks : RequestToken(t)
  \/ \E t \in Tasks, o \in LiveOutcomes : PostCompletes(t, o)
  \/ ClearToken
  \/ ClearTokenAsync
  \/ Tick

SpecManager == Init /\ [][NextManager]_vars

\* the cache and the diagnostic reads of the cache and of the service
NextInfo ==
  \/ \E token \in Tokens, expires_in \in ExpiresInValues :
       SetToken(token, expires_in)
  \/ ClearToken
  \/ \E r \in ClockReadings : GetExpirationInfo(r)
  \/ \E r \in ClockReadings : GetTokenInfo(r)
  \/ Tick

SpecInfo == Init /\ [][NextInfo]_vars

\* a deployment with every OAuth setting filled in and no buffer; the HTTP
\* client and the item catalogue read none of these settings
InitConfigured ==
  /\ Init
  /\ settings = [OAUTH_CLIENT_ID |-> "id", OAUTH_CLIENT_SECRET |-> "secret",
                 OAUTH_TOKEN_URL |-> "url",
                 TOKEN_EXPIRATION_BUFFER_SECONDS |-> 0]

\* the tasks use and close one HTTPClientService
NextClient ==
  \/ \E t \in Tasks, method \in Methods : HttpCall(t, method)
  \/ \E t \in Tasks, reply \in Replies : HttpResponds(t, reply)
  \/ \E t \in Tasks : Close(t)
  \/ \E t \in Tasks : CloseDone(t)

SpecClient == InitConfigured /\ [][NextClient]_vars

\* the requests on the item catalogue
NextItems ==
  \/ \E item_data \in ItemData : CreateItem(item_data)
  \/ \E item_id \in 1..MaxItems, item_data \in ItemUpdates :
       UpdateItem(item_id, item_data)
  \/ \E item_id \in 1..MaxItems : DeleteItem(item_id)
  \/ ClearAllItems
  \/ \E q \in Queries : GetItems(q)

SpecItems == InitConfigured /\ [][NextItems]_vars

\* callers of get_valid_token_async while the cache is being cleared with
\* clear_token_async, under the scheduling of SpecLive and without
\* cancellations
NextLiveClear ==
  \/ \E t \in Tasks : GetValidTokenAsync(t)
  \/ \E t \in Tasks : LockAcquired(t)
  \/ \E t \in Tasks, o \in LiveOutcomes : PostCompletes(t, o)
  \/ ClearTokenAsync
  \/ Tick

SpecLiveClear ==
  /\ Init
  /\ [][NextLiveClear]_vars
  /\ \A t \in Tasks :
       /\ WF_vars(LockAcquired(t))
       /\ WF_vars(\E o \in LiveOutcomes : PostCompletes(t, o))

\* callers of get_valid_token_async against a provider whose tokens live
\* no longer than the configured buffer
ShortLivedOutcomes ==
  {Outcome("ok", tok, e, 200) :
     tok \in {"tokA", "tokB"}, e \in {x \in ExpiresInValues : x <= Buffer}}

NextShortLived ==
  \/ \E t \in Tasks : GetValidTokenAsync(t)
  \/ \E t \in Tasks : LockAcquired(t)
  \/ \E t \in Tasks, o \in ShortLivedOutcomes : PostCompletes(t, o)
  \/ Tick

SpecShortLived == Init /\ [][NextShortLived]_vars

\* callers of get_valid_token_async against a provider that keeps failing
\* with errors request_token retries: 500, 429, timeout or network failure
FailingOutcomes ==
  {Outcome("http", None, 0, 500), Outcome("http", None, 0, 429),
   Outcome("transport", None, 0, 0)}

NextFailing ==
  \/ \E t \in Tasks : GetValidTokenAsync(t)
  \/ \E t \in Tasks : LockAcquired(t)
  \/ \E t \in Tasks, o \in FailingOutcomes : PostCompletes(t, o)

SpecFailing == Init /\ [][NextFailing]_vars

\* ============================================================== claims
RECURSIVE SumAttempts(_)
SumAttempts(S) ==
  IF S = {} THEN 0
  ELSE LET t == CHOOSE x \in S : TRUE IN attempt[t] + SumAttempts(S \ {t})

\* POSTs sent to the token endpoint so far
TotalPosts == SumAttempts(Tasks)

PostsInFlight == Cardinality({t \in Tasks : pc[t] = "post"})

\* every call came back, each with a token, and no POST was answered with
\* a failure (a failure ends in a raise or in a further attempt)
AllReturnedFirstTry ==
  \A t \in Tasks : pc[t] = "returned" /\ attempt[t] <= 1

OnePostSameToken ==
  /\ TotalPosts = 1
  /\ \A t, u \in Tasks : result[t].token = result[u].token

\* C1 as stated: N >= 2 concurrent get_valid_token_async calls on an empty
\* cache, every POST answered successfully: exactly one POST in total and
\* all calls return the same token.  (Stated for non-empty access_tokens.)
C1_Original ==
  (/\ overlap
   /\ Configured(settings)
   /\ AllReturnedFirstTry
   /\ \A t \in Tasks : Truthy(result[t].token))
    => OnePostSameToken

\* C1 amended: the same, provided every token the provider returned is
\* non-empty and its expires_in exceeds the buffer by more than the time
\* that has passed since it was obtained (it is still servable from the
\* cache when the last caller checks).
C1_OnePostWhileTokenValid ==
  (Configured(settings) /\ AllReturnedFirstTry /\ now < valid_until)
    => OnePostSameToken

C1_Witness ==
  /\ overlap
  /\ AllReturnedFirstTry
  /\ now < valid_until
  /\ TotalPosts = 1
  /\ \E t \in Tasks : result[t].path = "recheck"

\* C2: under any interleaving of get_valid_token_async callers and
\* clear_token calls, at most one token POST is in flight at any moment.
C2_SerializedPosts == PostsInFlight <= 1

C2_Witness ==
  \E t, u \in Tasks :
    /\ pc[t] = "post"
    /\ attempt[t] > 1
    /\ pc[u] = "lock_wait"

PerformedRequestToken(t) ==
  \/ pc[t] = "post"
  \/ pc[t] = "raised"
  \/ result[t].path \in {"refresh", "post"}

\* C3 as stated: N concurrent callers all observing an empty or expired
\* cache, whatever the outcome of the refresh: exactly one caller performs
\* request_token.
C3_Original ==
  (/\ overlap
   /\ Configured(settings)
   /\ \A t \in Tasks : pc[t] \in {"returned", "raised"}
   /\ \A t \in Tasks : result[t].path # "fast")
    => Cardinality({t \in Tasks : PerformedRequestToken(t)}) = 1

\* C3 amended: a caller sends its first POST only from a state in which the
\* cache serves no token and no other caller has a POST in flight; a caller
\* that takes the refresh lock while the cache serves a token returns that
\* token and makes no POST.  (After a refresh that raised, or whose token
\* the cache does not serve, the next lock holder refreshes again.)
C3_RefreshOnlyWhenCacheInvalid ==
  [][\A t \in Tasks :
       /\ (pc[t] \in {"idle", "lock_wait"} /\ pc'[t] = "post")
            => /\ ~Truthy(get_token(cache, now))
               /\ \A u \in Tasks \ {t} : pc[u] # "post"
       /\ (/\ pc[t] \in {"idle", "lock_wait"}
           /\ pc'[t] \in {"post", "returned", "raised"}
           /\ Truthy(get_token(cache, now)))
            => /\ pc'[t] = "returned"
               /\ result'[t].token = get_token(cache, now)
               /\ attempt'[t] = 0]_vars

C3_Witness ==
  \E t, u \in Tasks :
    /\ result[t].path = "refresh"
    /\ result[u].path = "recheck"
    /\ result[u].token = result[t].token
    /\ attempt[u] = 0

\* C4: the refresh lock is held only by a get_valid_token_async call that
\* is in progress inside request_token; once a call has returned, raised or
\* been cancelled it holds the lock no more, so with no call in progress
\* the lock is free.
C4_LockReleased ==
  /\ refresh_lock.locked
       => \E t \in Tasks :
            pc[t] = "post" /\ via[t] = "get_valid_token_async"
  /\ (\A t \in Tasks : ~InCall(pc[t]))
       => (~refresh_lock.locked /\ refresh_lock.waiters = <<>>)

C4_Witness ==
  /\ ~refresh_lock.locked
  /\ \E t, u \in Tasks :
       /\ pc[t] = "raised" /\ attempt[t] > 0
       /\ result[u] = Cancelled("post")

\* the errors C5 calls retryable: status >= 500, 429, timeout, network
RetryableFailure(o) ==
  \/ o.kind = "http" /\ (o.status >= 500 \/ o.status = 429)
  \/ o.kind = "transport"

\* the errors C6 calls non-retryable, as far as they come from a response
NonRetryableFailure(o) ==
  \/ o.kind \in {"no_access_token", "no_expires_in"}
  \/ o.kind = "http" /\ o.status >= 400 /\ o.status < 500 /\ o.status # 429

\* C5: in one request_token call a retryable failure of attempt k < 3 is
\* followed by POST k + 1; a retryable failure of attempt 3 raises after
\* exactly 3 POSTs; a success on attempt k <= 3 returns the access_token of
\* that response after exactly k POSTs.
C5_RetryCount ==
  [][\A t \in Tasks : \A o \in Outcomes :
       PostCompletes(t, o) =>
         /\ attempt[t] \in 1..3
         /\ (RetryableFailure(o) /\ attempt[t] < 3)
              => (pc'[t] = "post" /\ attempt'[t] = attempt[t] + 1)
         /\ (RetryableFailure(o) /\ attempt[t] = 3)
              => (pc'[t] = "raised" /\ attempt'[t] = 3
                  /\ result'[t].kind = "error")
         /\ o.kind = "ok"
              => (pc'[t] = "returned" /\ attempt'[t] = attempt[t]
                  /\ result'[t] = Returned(o.token, "refresh"))]_vars

C5_Witness ==
  \E t \in Tasks :
    /\ via[t] = "request_token"
    /\ pc[t] = "returned"
    /\ attempt[t] = 3
    /\ Truthy(result[t].token)

\* C6 as stated: a non-retryable error (missing configuration, a response
\* missing access_token or expires_in, a 4xx other than 429) results in
\* exactly one network attempt.
C6_Original ==
  [][\A t \in Tasks :
       /\ (pc[t] = "idle" /\ pc'[t] = "raised") => attempt'[t] = 1
       /\ \A o \in Outcomes :
            (PostCompletes(t, o) /\ NonRetryableFailure(o))
              => (pc'[t] = "raised" /\ attempt'[t] = 1)]_vars

\* C6 amended: missing configuration raises with no network attempt at
\* all; a response missing access_token or expires_in, or a 4xx other than
\* 429, raises on the attempt it occurs in and no further POST is made
\* (exactly one attempt when it occurs on the first).
C6_NoRetryOnPermanentError ==
  [][\A t \in Tasks :
       /\ (pc[t] = "idle" /\ pc'[t] = "raised")
            => (attempt'[t] = 0
                /\ result'[t] = Raised("configuration_error"))
       /\ \A o \in Outcomes :
            (PostCompletes(t, o) /\ NonRetryableFailure(o))
              => /\ pc'[t] = "raised"
                 /\ attempt'[t] = attempt[t]
                 /\ result'[t].code \in {"invalid_response", "request_failed"}
                 /\ (o.kind # "http") => result'[t].code = "invalid_response"]_vars

C6_Witness ==
  \E t \in Tasks :
    /\ via[t] = "request_token"
    /\ pc[t] = "raised"
    /\ result[t].code = "invalid_response"
    /\ attempt[t] = 1

\* C7: with OAUTH_CLIENT_ID, OAUTH_CLIENT_SECRET or OAUTH_TOKEN_URL empty,
\* request_token raises configuration_error and no POST is ever sent.
C7_ConfigurationError ==
  (\E k \in {"OAUTH_CLIENT_ID", "OAUTH_CLIENT_SECRET", "OAUTH_TOKEN_URL"} :
      settings[k] = "") =>
    \A t \in Tasks :
      /\ attempt[t] = 0
      /\ pc[t] \in {"idle", "raised"}
      /\ pc[t] = "raised" => result[t] = Raised("configuration_error")

C7_Witness ==
  /\ settings.OAUTH_CLIENT_ID # ""
  /\ settings.OAUTH_CLIENT_SECRET # ""
  /\ settings.OAUTH_TOKEN_URL = ""
  /\ \E t \in Tasks :
       via[t] = "request_token" /\ result[t] = Raised("configuration_error")

\* C8 as stated: whenever request_token returns the token of a response
\* (access_token, expires_in), the cache holds exactly that token with the
\* expiry derived from expires_in, for every expires_in.
C8_Original ==
  [][\A t \in Tasks : \A o \in Outcomes :
       (PostCompletes(t, o) /\ pc'[t] = "returned")
         => cache' = [token |-> o.token,
                      expiration_time |->
                        now + Max(o.expires_in - Buffer, 0)]]_vars

\* C8 amended: that holds for every expires_in > 0; for expires_in <= 0
\* request_token returns the token all the same and leaves the cache
\* exactly as it was.
C8_StoredWhenPositive ==
  [][\A t \in Tasks : \A o \in Outcomes :
       (PostCompletes(t, o) /\ pc'[t] = "returned")
         => /\ result'[t].token = o.token
            /\ o.expires_in > 0
                 => cache' = [token |-> o.token,
                              expiration_time |->
                                now + Max(o.expires_in - Buffer, 0)]
            /\ o.expires_in <= 0 => cache' = cache]_vars

C8_Witness ==
  \E t \in Tasks :
    /\ via[t] = "request_token"
    /\ pc[t] = "returned"
    /\ cache.token = result[t].token
    /\ stored.expires_in > Buffer
    /\ cache.expiration_time = stored.at + stored.expires_in - Buffer

ErrorCodes ==
  {"configuration_error", "invalid_response", "request_failed",
   "unexpected_error"}

\* C9: a get_valid_token_async call that returns, returns the access_token
\* of some successful provider response; a call whose refresh fails raises
\* an OAuthError; it never returns None or a made-up value.
C9_NoFabricatedToken ==
  \A t \in Tasks :
    /\ pc[t] = "returned"
         => (result[t].kind = "token" /\ result[t].token \in issued)
    /\ pc[t] = "raised"
         => (result[t].kind = "error" /\ result[t].code \in ErrorCodes)
    /\ result[t].kind = "token" => pc[t] = "returned"
    /\ result[t].kind = "error" => pc[t] = "raised"

C9_Witness ==
  \E t, u \in Tasks :
    /\ pc[t] = "raised" /\ attempt[t] = 3
    /\ pc[u] = "returned" /\ result[u].token \in issued

\* C10: after set_token(token, L) at T0 with L greater than the buffer B
\* (and no later store or clear), get_token returns token at every instant
\* before T0 + L - B and None from T0 + L - B on.
C10_ValidUntilBufferBeforeExpiry ==
  (stored # NoStore /\ stored.expires_in > Buffer) =>
    get_token(cache, now) =
      IF now < stored.at + stored.expires_in - Buffer
        THEN stored.token
        ELSE None

C10_Witness ==
  /\ stored # NoStore
  /\ Buffer > 0
  /\ stored.expires_in > Buffer
  /\ now = stored.at + stored.expires_in - Buffer
  /\ get_token(cache, now) = None

\* C11: for every expires_in <= 0, set_token(token, expires_in) leaves the
\* cached token and expiration time exactly as they were, whether the
\* cache was empty or populated (set_token has no raising path for an
\* integer expires_in).
C11_NonPositiveIsNoOp ==
  [][\A token \in Tokens : \A expires_in \in ExpiresInValues :
       (SetToken(token, expires_in) /\ expires_in <= 0)
         => (cache' = cache /\ stored' = stored)]_vars

C11_Witness ==
  /\ noop_store
  /\ stored # NoStore
  /\ cache.token = stored.token
  /\ cache.expiration_time = stored.at + Max(stored.expires_in - Buffer, 0)

\* C12: after set_token(token, L) with 0 < L <= buffer (and no later store
\* or clear) the cache holds the token with the store instant as its
\* expiration time, and from that instant on get_token returns None and
\* is_expired returns True.
C12_ShortLifetimeNeverValid ==
  (stored # NoStore /\ stored.expires_in <= Buffer) =>
    /\ cache = [token |-> stored.token, expiration_time |-> stored.at]
    /\ get_token(cache, now) = None
    /\ is_expired(cache, now)

C12_Witness ==
  /\ stored # NoStore
  /\ stored.expires_in > 0
  /\ stored.expires_in <= Buffer
  /\ stored.token = "tokA"
  /\ now > stored.at
  /\ cache.token = "tokA"

C14_ClearThenGetIsNone ==
  [][(ClearToken \/ ClearTokenAsync)
       => /\ cache' = EmptyCache
          /\ get_token(cache', now') = None
          /\ clear_token(cache') = cache']_vars

C14_Witness ==
  /\ \E t \in Tasks : result[t].path = "refresh"
  /\ now < valid_until
  /\ cache = EmptyCache
  /\ get_token(cache, now) = None

\* C15: a get_valid_token_async caller that waited for the refresh lock and,
\* holding it, finds on its re-check that the cache serves a token returns
\* that token, releases the lock and makes no POST.
C15_RecheckSkipsRefresh ==
  [][\A t \in Tasks :
       (/\ pc[t] = "lock_wait"
        /\ pc'[t] \notin {"lock_wait", "cancelled"}
        /\ get_token(cache, now) \notin {None, ""})
         => /\ pc'[t] = "returned"
            /\ result'[t] = Returned(get_token(cache, now), "recheck")
            /\ attempt' = attempt
            /\ ~refresh_lock'.locked]_vars

C15_Witness ==
  \E t, u \in Tasks :
    /\ result[t].path = "refresh" /\ attempt[t] = 2
    /\ result[u].path = "recheck" /\ attempt[u] = 0
    /\ result[u].token = cache.token
    /\ acquired[u] = {"_lock", "_refresh_lock"}

\* C16 as stated: when the cache holds a valid token, get_valid_token_async
\* returns it having acquired no lock at all.
C16_Original ==
  \A t \in Tasks : result[t].path = "fast" => acquired[t] = {}

\* C16 amended: when the cache holds a valid token, get_valid_token_async
\* returns it in one step without suspending, whoever holds the refresh
\* lock: it acquires the cache's own lock (get_token_async) and not the
\* refresh lock, and makes no POST.
C16_FastPathSkipsRefreshLock ==
  [][\A t \in Tasks :
       (/\ pc[t] = "idle"
        /\ via'[t] = "get_valid_token_async"
        /\ get_token(cache, now) \notin {None, ""})
         => /\ pc'[t] = "returned"
            /\ result'[t] = Returned(get_token(cache, now), "fast")
            /\ acquired'[t] = {"_lock"}
            /\ refresh_lock' = refresh_lock
            /\ attempt' = attempt]_vars

C16_Witness ==
  \E t, u \in Tasks :
    /\ result[t].path = "fast"
    /\ acquired[t] = {"_lock"}
    /\ via[u] = "get_valid_token_async"
    /\ pc[u] = "post"
    /\ refresh_lock.locked

\* the error code request_token builds from a failed attempt whose failure
\* carries no provider error body
FailureCode(o) ==
  IF o.kind = "unexpected" THEN "unexpected_error" ELSE "request_failed"

\* C17: when the attempt that fails is attempt 3, request_token raises the
\* error built from that attempt's failure, whatever the earlier attempts
\* failed with; the loop never goes past attempt 3, so the statements after
\* it are not reached and "max_retries_exceeded" is never raised.
C17_LastErrorRaised ==
  [][\A t \in Tasks : \A o \in Outcomes :
       PostCompletes(t, o) =>
         /\ attempt'[t] <= max_retry_attempts
         /\ result'[t].code # "max_retries_exceeded"
         /\ (/\ attempt[t] = max_retry_attempts
             /\ o.kind \in {"http", "transport", "unexpected"})
              => (pc'[t] = "raised" /\ result'[t] = Raised(FailureCode(o)))]_vars

C17_Witness ==
  \E t \in Tasks :
    /\ via[t] = "request_token"
    /\ attempt[t] = max_retry_attempts
    /\ result[t] = Raised("unexpected_error")

\* C18: when the provider answers the token POST with an HTTP failure whose
\* body is a JSON object carrying error and error_description, the
\* OAuthError request_token raises has the provider's error as error_code
\* and the provider's error_description.
C18_Original ==
  [][\A t \in Tasks : \A o \in ProviderErrorOutcomes :
       (PostCompletes(t, o) /\ pc'[t] = "raised" /\ o.body.kind = "object")
         => /\ result'[t].code = o.body.error
            /\ result'[t].description = o.body.error_description]_vars

C20_ClearNeverWaits ==
  /\ [](\A t \in Tasks : pc[t] = "idle" => ENABLED CallClearToken(t))
  /\ [][\A t \in Tasks :
          (pc[t] = "idle" /\ via'[t] = "clear_token")
            => /\ pc'[t] = "returned"
               /\ cache' = EmptyCache
               /\ acquired'[t] = {}
               /\ refresh_lock' = refresh_lock
               /\ attempt' = attempt
               /\ \A u \in Tasks \ {t} : pc'[u] = pc[u]]_vars

\* a clear during a refresh, after which the refresh came back and
\* repopulated the cache
C20_Witness ==
  \E t, u \in Tasks :
    /\ result[t].path = "clear_during_refresh"
    /\ result[u].path = "refresh"
    /\ cache.token = result[u].token
    /\ get_token(cache, now) = result[u].token

C22_Original ==
  [][cache' # cache =>
       \/ cache' = EmptyCache
       \/ /\ refresh_lock.locked
          /\ \E t \in Tasks :
               /\ pc[t] = "post" /\ pc'[t] = "returned"
               /\ "_refresh_lock" \in acquired[t]]_vars

\* C22 amended: every change of the cache is a clear or the store of a
\* request_token call that returns; when that call was made by
\* get_valid_token_async the task holds the refresh lock, when request_token
\* was called directly it holds no lock but the cache's own.
C22_StoreUnderLockUnlessDirect ==
  [][cache' # cache =>
       \/ cache' = EmptyCache
       \/ \E t \in Tasks :
            /\ pc[t] = "post" /\ pc'[t] = "returned"
            /\ cache'.token = result'[t].token
            /\ via[t] = "get_valid_token_async"
                 => (refresh_lock.locked /\ "_refresh_lock" \in acquired[t])
            /\ via[t] = "request_token" => acquired'[t] = {"_lock"}]_vars

C22_Witness ==
  \E t, u \in Tasks :
    /\ via[t] = "request_token"
    /\ result[t].path = "refresh"
    /\ cache.token = result[t].token
    /\ via[u] = "get_valid_token_async"
    /\ pc[u] = "post"
    /\ refresh_lock.locked

\* C23: with a buffer >= 0, whenever get_token returns the token stored by
\* set_token(token, expires_in) at instant T0, the current instant is
\* strictly before T0 + expires_in: the recorded expiry is never later than
\* the provider's.
C23_NeverValidPastProviderExpiry ==
  /\ Buffer >= 0
  /\ stored # NoStore =>
       /\ cache.expiration_time <= stored.at + stored.expires_in
       /\ get_token(cache, now) # None
            => now < stored.at + stored.expires_in

C23_Witness ==
  /\ stored # NoStore
  /\ Buffer = 0
  /\ now > stored.at
  /\ now = stored.at + stored.expires_in - 1
  /\ get_token(cache, now) = stored.token

\* C24: in a snapshot of get_expiration_info, seconds_until_expiration
\* carries a value only when has_token is True and is_expired is False in
\* that snapshot, and then it is expiration_time - current_time, which is
\* not negative; it is None whenever the snapshot says has_token False or
\* is_expired True.
C24_SecondsOnlyWhenValid ==
  info.source = "cache" =>
    /\ info.seconds_until_expiration # NoTime
         => /\ info.has_token
            /\ ~info.is_expired
            /\ info.seconds_until_expiration =
                 info.expiration_time - info.current_time
            /\ info.seconds_until_expiration >= 0
    /\ (~info.has_token \/ info.is_expired)
         => info.seconds_until_expiration = NoTime

C24_Witness ==
  /\ info.source = "cache"
  /\ info.has_token
  /\ info.current_time = 1
  /\ info.seconds_until_expiration = 1
  /\ cache.token # None

\* C25: get_token_info returns the cache's snapshot with oauth_configured,
\* True exactly when OAUTH_CLIENT_ID, OAUTH_CLIENT_SECRET and
\* OAUTH_TOKEN_URL are all non-empty, and with the configured token URL;
\* the call changes nothing of the cache, the locks or the tasks.
C25_TokenInfoIsPureRead ==
  [][\A r \in ClockReadings :
       GetTokenInfo(r) =>
         /\ info'.oauth_configured =
              (\A k \in {"OAUTH_CLIENT_ID", "OAUTH_CLIENT_SECRET",
                          "OAUTH_TOKEN_URL"} : settings[k] # "")
         /\ info'.token_url = settings.OAUTH_TOKEN_URL
         /\ info'.has_token = (cache.token # None)
         /\ info'.expiration_time = cache.expiration_time
         /\ info'.is_expired = is_expired(cache, r[2])
         /\ UNCHANGED <<cache, cache_lock, refresh_lock, pc, attempt,
                        acquired, http, settings>>]_vars

C25_Witness ==
  /\ info.source = "manager"
  /\ info.oauth_configured
  /\ info.token_url = "url"
  /\ info.has_token
  /\ ~info.is_expired

\* C26: every get/post/put/delete call invokes the underlying client once
\* and ends with its first reply: a response with status >= 400 is raised
\* as HTTPClientError with that status code and the content of the body, a
\* response with status < 400 is returned with its status code and body,
\* and a timeout or network failure is raised as HTTPClientError without a
\* status code.
C26_OneRequestClassifiedByStatus ==
  [][\A t \in Tasks, reply \in Replies :
       HttpResponds(t, reply) =>
         LET c == http'.call[t]
         IN  /\ c.state = "done"
             /\ c.requests = 1
             /\ (reply.kind = "response" /\ reply.status >= 400)
                  => /\ c.result.kind = "HTTPClientError"
                     /\ c.result.status_code = reply.status
                     /\ c.result.body.error = reply.body.error
                     /\ c.result.body.error_description =
                          reply.body.error_description
             /\ (reply.kind = "response" /\ reply.status < 400)
                  => c.result = HttpResult("returned", reply.status, reply.body)
             /\ reply.kind # "response"
                  => /\ c.result.kind = "HTTPClientError"
                     /\ c.result.status_code = NoStatus]_vars

C26_Witness ==
  \E t \in Tasks :
    /\ http.call[t].state = "done"
    /\ http.call[t].requests = 1
    /\ http.call[t].result.kind = "HTTPClientError"
    /\ http.call[t].result.status_code = 400

\* C27: a close() that finds no client, on a service never used or after
\* an earlier close, raises nothing, closes nothing and leaves the service
\* without a client; a close() that closed a client leaves the service
\* without a client.
C27_CloseIdempotent ==
  [][\A t \in Tasks :
       /\ (Close(t) /\ http.client = NoClient)
            => /\ http'.call[t].state = "done"
               /\ http'.call[t].result.kind = "nothing_to_close"
               /\ http'.aclosed = http.aclosed
               /\ http'.created = http.created
               /\ http'.client = NoClient
       /\ CloseDone(t) => http'.client = NoClient]_vars

C27_Witness ==
  \E t \in Tasks :
    /\ http.call[t].result.kind = "nothing_to_close"
    /\ http.created = 1
    /\ http.aclosed = 1
    /\ http.client = NoClient

\* C28 as stated: the service creates a client at most once, and no
\* request is sent on a client created after a close()
C28_Original ==
  /\ http.created <= 1
  /\ \A t \in Tasks : http.call[t].state = "sent" => http.call[t].on <= 1

\* C29: create_item hands out 1, 2, 3, .. after construction and after
\* every clear_all_items: each new id is greater than every id handed out
\* since the store was last cleared, whatever was deleted in between, and
\* is not the id of a stored item; clear_all_items leaves an empty store
\* whose next id is 1.
C29_SequentialIds ==
  [][/\ \A item_data \in ItemData :
          CreateItem(item_data) =>
            LET id == item_store'.assigned[Len(item_store'.assigned)]
            IN  /\ id = Len(item_store.assigned) + 1
                /\ \A k \in 1..Len(item_store.assigned) :
                     item_store.assigned[k] < id
                /\ id \notin DOMAIN item_store.items_db
                /\ item_store'.items_db[id] = item_data
     /\ ClearAllItems =>
          /\ DOMAIN item_store'.items_db = {}
          /\ item_store'.next_id = 1]_vars

C29_Witness ==
  /\ item_store.assigned = <<1, 2>>
  /\ DOMAIN item_store.items_db = {2}

\* C30 as stated: the ids GET /items returns are exactly those of the
\* stored items that satisfy every filter supplied with the request
C30_Original ==
  item_store.listing.asked =>
    LET q == item_store.listing.query
        db == item_store.items_db
    IN  item_store.listing.returned =
          {i \in DOMAIN db :
             /\ (q.available_only = <<TRUE>>) => db[i].is_available
             /\ q.min_price # <<>> => db[i].price >= q.min_price[1]
             /\ q.max_price # <<>> => db[i].price <= q.max_price[1]
             /\ q.search # <<>> =>
                  Contains(lower(q.search[1]), lower(db[i].name))}

\* C31: whatever the outcomes of its attempts, a request_token call never
\* makes more than 3 POSTs, and the outcome of POST 3 ends the call with a
\* token or an OAuthError; an unexpected exception in attempt k < 3 is
\* followed by POST k + 1, as a 500 would be, and in attempt 3 raises an
\* OAuthError with error_code "unexpected_error".
C31_UnexpectedConsumesAttempt ==
  [][\A t \in Tasks : \A o \in Outcomes :
       PostCompletes(t, o) =>
         /\ attempt[t] \in 1..3 /\ attempt'[t] \in 1..3
         /\ attempt[t] = 3
              => /\ pc'[t] \in {"returned", "raised"}
                 /\ result'[t].kind \in {"token", "error"}
         /\ (o.kind = "unexpected" /\ attempt[t] < 3)
              => /\ pc'[t] = "post"
                 /\ attempt'[t] = attempt[t] + 1
                 /\ result'[t] = result[t]
         /\ (o.kind = "unexpected" /\ attempt[t] = 3)
              => /\ pc'[t] = "raised"
                 /\ result'[t].kind = "error"
                 /\ result'[t].code = "unexpected_error"]_vars

C31_Witness ==
  \E t \in Tasks, u \in Tasks :
    /\ via[t] = "request_token" /\ via[u] = "request_token"
    /\ pc[t] = "raised"
    /\ attempt[t] = 3
    /\ result[t].code = "unexpected_error"
    /\ pc[u] = "post"
    /\ attempt[u] = 2

\* C32 as stated: with a provider that keeps failing with a retryable
\* error, the callers of get_valid_token_async together make at most
\* max_retry_attempts POSTs, however many they are
C32_Original == TotalPosts <= max_retry_attempts

\* C33: no step of a request_token call other than its successful return
\* changes the cache: neither the start of the call (configuration error
\* included), nor an attempt that is retried, nor the attempt on which the
\* call raises; a credential cached before survives a failed refresh.
C33_FailedRefreshKeepsCache ==
  [][\A t \in Tasks :
       /\ RequestToken(t) => cache' = cache
       /\ \A o \in Outcomes :
            (PostCompletes(t, o) /\ pc'[t] # "returned") => cache' = cache]_vars

C33_Witness ==
  \E t \in Tasks :
    /\ via[t] = "request_token"
    /\ pc[t] = "raised"
    /\ result[t].code = "invalid_response"
    /\ cache.token = "tokA"
    /\ get_token(cache, now) = "tokA"

\* C34: when every POST comes to an end and a task that can take the
\* refresh lock is run, a get_valid_token_async call that is waiting for
\* the refresh lock or for a POST eventually returns a token or raises,
\* whatever the other callers do and whenever clear_token_async runs.
C34_EveryCallCompletes ==
  \A t \in Tasks :
    (pc[t] \in {"lock_wait", "post"}) ~> (pc[t] \in {"returned", "raised"})

C34_Witness ==
  /\ overlap
  /\ \A t \in Tasks : pc[t] \in {"returned", "raised"} /\ attempt[t] >= 1
  /\ \E t \in Tasks : result[t].path = "refresh"
  /\ cache.token = None

C36_ShortLivedNeverServed ==
  /\ get_token(cache, now) = None
  /\ \A t \in Tasks :
       pc[t] = "returned" => (result[t].path = "refresh" /\ attempt[t] = 1)
  /\ TotalPosts >= Cardinality({t \in Tasks : pc[t] \in {"post", "returned"}})
  /\ PostsInFlight <= 1

C36_Witness ==
  /\ overlap
  /\ \A t \in Tasks : pc[t] = "returned" /\ result[t].path = "refresh"
  /\ TotalPosts = NumTasks
  /\ Buffer = 1
  /\ stored # NoStore /\ stored.expires_in = 1
  /\ cache.token # None

\* C37: at every instant get_token() returns a token exactly when
\* is_expired() is False, and is_expired() is True exactly when the cache
\* is empty or the clock has reached the expiration time; a cache that
\* holds an expired token reports has_token True while get_token() returns
\* None.
C37_ReadAgreesWithExpiry ==
  /\ (get_token(cache, now) # None) <=> ~is_expired(cache, now)
  /\ is_expired(cache, now)
       <=> (cache.token = None \/ now >= cache.expiration_time)
  /\ (cache.token # None /\ now >= cache.expiration_time)
       => /\ get_token(cache, now) = None
          /\ get_expiration_info(cache, now, now, now).has_token
          /\ get_expiration_info(cache, now, now, now).is_expired

C37_Witness ==
  /\ cache.token = "tokB"
  /\ now = cache.expiration_time
  /\ now > 0
  /\ get_token(cache, now) = None
  /\ info.source = "cache" /\ info.has_token /\ info.is_expired
  /\ info.current_time = now

\* C38: update_item on an id that is not stored returns None, delete_item
\* on such an id returns False, and both leave the items and the next id
\* as they were; delete_item on a stored id returns True, removes that item
\* and leaves every other item and the next id as they were.
C38_MissingIdIsNoOp ==
  [][\A item_id \in 1..MaxItems :
       LET db == item_store.items_db
           after == item_store'
       IN  /\ \A item_data \in ItemUpdates :
                (item_id \notin DOMAIN db /\ UpdateItem(item_id, item_data))
                  => /\ after.listing.reply = Reply("update", <<>>)
                     /\ after.items_db = db
                     /\ after.next_id = item_store.next_id
           /\ (item_id \notin DOMAIN db /\ DeleteItem(item_id))
                => /\ after.listing.reply = Reply("delete", <<FALSE>>)
                   /\ after.items_db = db
                   /\ after.next_id = item_store.next_id
           /\ (item_id \in DOMAIN db /\ DeleteItem(item_id))
                => /\ after.listing.reply = Reply("delete", <<TRUE>>)
                   /\ DOMAIN after.items_db = DOMAIN db \ {item_id}
                   /\ \A j \in DOMAIN after.items_db :
                        after.items_db[j] = db[j]
                   /\ after.next_id = item_store.next_id]_vars

C38_Witness ==
  /\ item_store.listing.reply = Reply("delete", <<FALSE>>)
  /\ DOMAIN item_store.items_db = {1}
  /\ item_store.next_id = 3

====
